---- MODULE Spec2Model ----
(***************************************************************************)
(* A model of the JaxEnv adapter (gymnasium/envs/phys2d/conversion.py) and *)
(* of the ClipAction / FlattenObservation wrappers (gymnasium/wrappers).   *)
(*                                                                         *)
(* The adapter is a record of the attributes of one JaxEnv instance; each  *)
(* method is an operator from (instance, input) to the instance after the  *)
(* call, what the call returned or raised, and the calls it made into the  *)
(* function bundle.  Optional values (an unset attribute, None) are        *)
(* sequences of length 0 or 1.                                             *)
(***************************************************************************)
EXTENDS Integers, Sequences, FiniteSets, TLC

VARIABLES
    env,        \* the JaxEnv instance
    ret,        \* what the last call on it returned or raised
    calls,      \* the methods called on it so far, in order
    passed,     \* the keys handed to initial / transition so far, in order
    currents,   \* every key that has been the instance's current key (self.rng)
    rlog,       \* the render operations of the bundle called so far, in order
    built,      \* the seeds the constructors drew, for env and for env2
    env2,       \* a second JaxEnv instance, constructed with the same arguments
    ret2,       \* what the last call on the second instance returned or raised
    w           \* a ClipAction or FlattenObservation wrapper and its last result

vars == <<env, ret, calls, passed, currents, rlog, built, env2, ret2, w>>

\* ------------------------------------------------------------------ bounds
MaxCalls == 4       \* method calls made on one adapter
NumStates == 3      \* environment states of the function bundle are 0..NumStates-1
MaxClip == 2        \* components of the arrays given to ClipAction are -MaxClip..MaxClip
MaxDim == 3         \* axes of an observation have 1..MaxDim entries
MaxRank == 3        \* observations have 1..MaxRank axes
MaxEnvs == 3        \* a vector environment has 1..MaxEnvs sub-environments
MaxNodes == 5       \* a value given to _convert_jax_to_numpy has at most MaxNodes
                    \* arrays, containers and other values in it
MaxAction == 1      \* the largest valid action: the action space is Box(0, MaxAction)
                    \* or Discrete(MaxAction + 1)

\* Seeds are opaque: two of them show "the same seed" and "another seed".
Seeds == {0, 1}
States == 0..(NumStates - 1)

\* The actions offered to step: the valid ones, one below and one above.
ActionInputs == (0 - 1)..(MaxAction + 1)

None == <<>>
Some(x) == <<x>>

RECURSIVE SumWeighted(_, _)
SumWeighted(s, i) == IF i > Len(s) THEN 0 ELSE i * s[i] + SumWeighted(s, i + 1)

\* ------------------------------------------------- random stream (jax.random)
\* A key is the path that produced it: the seed, then the half taken at each
\* split.  Distinct paths are distinct keys (the hash behind jax.random.split is
\* taken to be collision free).
PRNGKey(seed) == <<seed>>

split(key) == <<Append(key, 0), Append(key, 1)>>

\* The number a bundle draws from a key.
TokVal(key) == SumWeighted(key, 1)

\* ------------------------------------------------ nested values and arrays
Jnp(v) == [kind |-> "jnp", val |-> v, elems |-> <<>>, keys |-> <<>>]
Np(v) == [kind |-> "np", val |-> v, elems |-> <<>>, keys |-> <<>>]
Tuple(es) == [kind |-> "tuple", val |-> 0, elems |-> es, keys |-> <<>>]
List(es) == [kind |-> "list", val |-> 0, elems |-> es, keys |-> <<>>]
Dict(ks, es) == [kind |-> "dict", val |-> 0, elems |-> es, keys |-> ks]
Other(v) == [kind |-> "other", val |-> v, elems |-> <<>>, keys |-> <<>>]
NoValue == [kind |-> "none", val |-> 0, elems |-> <<>>, keys |-> <<>>]

Returned(v) == [raised |-> FALSE, value |-> v]
Raised(v) == [raised |-> TRUE, value |-> v]

\* (mutant) a conversion that hands back what it does not know
RECURSIVE convert_pass_through(_)
convert_pass_through(element) ==
    IF element.kind = "jnp" THEN Returned(Np(element.val))
    ELSE IF element.kind \in {"tuple", "list", "dict"} THEN
        LET rs == [i \in DOMAIN element.elems |-> convert_pass_through(element.elems[i])]
        IN  Returned([element EXCEPT !.elems = [i \in DOMAIN rs |-> rs[i].value]])
    ELSE Returned(element)

\* _convert_jax_to_numpy: the converted value, or the TypeError raised for the
\* first element (in iteration order) of a type it does not know.
RECURSIVE convert_jax_to_numpy(_)
convert_jax_to_numpy(element) ==
    IF element.kind = "jnp" THEN Returned(Np(element.val))
    ELSE IF element.kind \in {"tuple", "list", "dict"} THEN
        LET rs == [i \in DOMAIN element.elems |-> convert_jax_to_numpy(element.elems[i])]
            bad == {i \in DOMAIN rs : rs[i].raised}
        IN  IF bad # {}
            THEN rs[CHOOSE i \in bad : \A j \in bad : i <= j]
            ELSE Returned([element EXCEPT !.elems = [i \in DOMAIN rs |-> rs[i].value]])
    ELSE Raised(element)

\* ------------------------------------------------------- the function bundle
\* FuncEnv is a parameter of the adapter: pure functions over explicit state.
\* The bundles differ in the container their observation comes in.
FuncEnvs == {"array", "nested", "partial"}

initial(rng) == TokVal(rng) % NumStates

transition(state, action, rng) == (state + action + TokVal(rng)) % NumStates

observation(fe, state) ==
    IF fe = "array" THEN Jnp(state)
    ELSE IF fe = "nested" THEN Tuple(<<Jnp(state), Dict(<<"k">>, <<Jnp(state + 1)>>)>>)
    ELSE Tuple(<<Jnp(state), IF state % 2 = 1 THEN Other(state) ELSE Jnp(state)>>)

reward(state, action, next_state) == next_state - state + action

terminal(state) == state = NumStates - 1

state_info(state) == <<state>>

step_info(state, action, next_state) == <<state, action, next_state>>

render_init == 0

\* render_image(state, render_state) with a render state: the render state
\* after drawing one more frame, and the image.
render_image(state, render_state) ==
    [render_state |-> render_state + 1, image |-> <<state, render_state>>]

\* ------------------------------------------------------------ action spaces
clip1(x, lo, hi) ==
    LET m == IF x < lo THEN lo ELSE x IN IF m > hi THEN hi ELSE m

\* np.clip(a, low, high) on arrays of equal shape
np_clip(a, low, high) == [i \in DOMAIN a |-> clip1(a[i], low[i], high[i])]

\* self.action_space.low, self.action_space.high of the Box action space
BoxLow == 0
BoxHigh == MaxAction

\* self.action_space.contains of the Discrete action space
contains(action) == action \in 0..MaxAction

\* ------------------------------------------------------------- the adapter
\* render_mode: "rgb_array", or anything else (None, the default)
RenderModes == {"rgb_array", "none"}

Ret(op, arg, err, obs, rew, term, trunc, info, image) ==
    [op |-> op, arg |-> arg, err |-> err, obs |-> obs, reward |-> rew,
     terminated |-> term, truncated |-> trunc, info |-> info, image |-> image]

\* A call that returned nothing (None), or raised err.
Plain(op, arg, err) == Ret(op, arg, err, NoValue, 0, FALSE, FALSE, <<>>, <<>>)

\* A call's effect: the instance after it, its result, the keys it handed to
\* initial / transition, and the render operations of the bundle it called.
Outcome(e, r, toks, rops) == [env |-> e, ret |-> r, passed |-> toks, rops |-> rops]

RenderCall(fn, rs) == [fn |-> fn, rs |-> rs]

\* (mutant) a constructor that leaves the render state to the first render
JaxEnv_lazy(func_env, is_box, render_mode, seed) ==
    [env |-> [func_env |-> func_env, is_box |-> is_box, render_mode |-> render_mode,
              render_state |-> <<>>, state |-> <<>>, rng |-> <<seed>>],
     ret |-> Plain("__init__", <<>>, ""), passed |-> <<>>, rops |-> <<>>]

\* JaxEnv.__init__: seed is the number drawn from seeding.np_random()
JaxEnv(func_env, is_box, render_mode, seed) ==
    Outcome([func_env |-> func_env,
             is_box |-> is_box,
             render_mode |-> render_mode,
             render_state |-> IF render_mode = "rgb_array" THEN Some(render_init) ELSE None,
             state |-> None,
             rng |-> PRNGKey(seed)],
            Plain("__init__", <<>>, ""),
            <<>>,
            IF render_mode = "rgb_array" THEN <<RenderCall("render_init", None)>> ELSE <<>>)

\* (mutant) the split whose second half is dropped: self.rng stays as it was
split_rng_stale(key) == [rng |-> split(key)[1], self_rng |-> key]

\* rng, self.rng = jrng.split(self.rng)
split_rng(key) == [rng |-> split(key)[1], self_rng |-> split(key)[2]]

\* (mutant) a reset that ignores its seed
reseed_ignored(self, seed) == self.rng

\* (mutant) a reset that folds its seed into the stream it finds
reseed_fold_in(self, seed) == IF seed # None THEN Append(self.rng, seed[1]) ELSE self.rng

\* (mutant) a reset that, given no seed, starts the stream again from seed 0
reseed_default(self, seed) == IF seed # None THEN PRNGKey(seed[1]) ELSE PRNGKey(0)

\* if seed is not None: self.rng = jrng.PRNGKey(seed)
reseed(self, seed) == IF seed # None THEN PRNGKey(seed[1]) ELSE self.rng

\* JaxEnv.reset(seed=seed): seed is None or Some(s).  (super().reset(seed) only
\* seeds the numpy generator of gym.Env, which the adapter never reads.)
reset(self, seed) ==
    LET keys == split_rng(reseed(self, seed))
        state == initial(keys.rng)
        obs == observation(self.func_env, state)
        info == state_info(state)
        conv == convert_jax_to_numpy(obs)
        after == [self EXCEPT !.rng = keys.self_rng, !.state = Some(state)]
    IN  IF conv.raised
        THEN Outcome(after, Plain("reset", seed, "TypeError"), <<keys.rng>>, <<>>)
        ELSE Outcome(after,
                     Ret("reset", seed, "", conv.value, 0, FALSE, FALSE, info, <<>>),
                     <<keys.rng>>, <<>>)

\* (mutant) a step that uses the action of a Box space as given
check_action_unclipped(self, a) ==
    IF self.is_box
    THEN Returned(a)
    ELSE IF contains(a) THEN Returned(a) ELSE Raised(a)

\* (mutant) a step that does not check membership
check_action_unchecked(self, a) ==
    IF self.is_box
    THEN Returned(np_clip(<<a>>, <<BoxLow>>, <<BoxHigh>>)[1])
    ELSE Returned(a)

\* The first statement of step: the action to use, or the AssertionError.
check_action(self, a) ==
    IF self.is_box
    THEN Returned(np_clip(<<a>>, <<BoxLow>>, <<BoxHigh>>)[1])
    ELSE IF contains(a) THEN Returned(a) ELSE Raised(a)

\* (mutant) the observation of the state after the transition
step_observation_after(self, state, next_state) == observation(self.func_env, next_state)

\* observation = self.func_env.observation(self.state)
step_observation(self, state, next_state) == observation(self.func_env, state)

\* (mutant) a step that signals truncation
step_truncated_set == TRUE

\* the fourth element of the tuple step returns
step_truncated == FALSE

\* JaxEnv.step(action)
step(self, a) ==
    LET chk == check_action(self, a)
        keys == split_rng(self.rng)
        split_done == [self EXCEPT !.rng = keys.self_rng]
    IN  IF chk.raised
        THEN Outcome(self, Plain("step", <<a>>, "AssertionError"), <<>>, <<>>)
        ELSE IF self.state = None
        THEN Outcome(split_done, Plain("step", <<a>>, "AttributeError"), <<>>, <<>>)
        ELSE
        LET action == chk.value
            state == self.state[1]
            next_state == transition(state, action, keys.rng)
            obs == step_observation(self, state, next_state)
            rew == reward(state, action, next_state)
            terminated == terminal(next_state)
            info == step_info(state, action, next_state)
            conv == convert_jax_to_numpy(obs)
            after == [split_done EXCEPT !.state = Some(next_state)]
        IN  IF conv.raised
            THEN Outcome(after, Plain("step", <<a>>, "TypeError"), <<keys.rng>>, <<>>)
            ELSE Outcome(after,
                         Ret("step", <<a>>, "", conv.value, rew, terminated,
                             step_truncated, info, <<>>),
                         <<keys.rng>>, <<>>)

\* (mutant) a render that draws a key from the random stream for the image
render_advances_key(self, lazy) ==
    IF self.render_mode # "rgb_array"
    THEN Outcome(self, Plain("render", <<>>, "NotImplementedError"), <<>>, <<>>)
    ELSE IF self.state = None
    THEN Outcome(self, Plain("render", <<>>, "AttributeError"), <<>>, <<>>)
    ELSE IF self.render_state = None /\ ~lazy
    THEN Outcome(self, Plain("render", <<>>, "BundleError"), <<>>,
                 <<RenderCall("render_image", None)>>)
    ELSE
    LET rs == IF self.render_state = None THEN render_init ELSE self.render_state[1]
        out == render_image(self.state[1], rs)
    IN  Outcome([self EXCEPT !.render_state = Some(out.render_state),
                             !.rng = split(self.rng)[2]],
                Ret("render", <<>>, "", NoValue, 0, FALSE, FALSE, <<>>, out.image),
                <<>>,
                <<RenderCall("render_image", self.render_state)>>)

\* (mutant) a render that does not look at the render mode
render_any_mode(self, lazy) ==
    IF self.state = None
    THEN Outcome(self, Plain("render", <<>>, "AttributeError"), <<>>, <<>>)
    ELSE IF self.render_state = None /\ ~lazy
    THEN Outcome(self, Plain("render", <<>>, "BundleError"), <<>>,
                 <<RenderCall("render_image", None)>>)
    ELSE
    LET rs == IF self.render_state = None THEN render_init ELSE self.render_state[1]
        out == render_image(self.state[1], rs)
    IN  Outcome([self EXCEPT !.render_state = Some(out.render_state)],
                Ret("render", <<>>, "", NoValue, 0, FALSE, FALSE, <<>>, out.image),
                <<>>,
                <<RenderCall("render_image", self.render_state)>>)

\* JaxEnv.render().  With no render state stored (after close) the bundle is
\* handed None, which its contract does not cover: it either raises or starts a
\* render state of its own (lazy).
render(self, lazy) ==
    IF self.render_mode # "rgb_array"
    THEN Outcome(self, Plain("render", <<>>, "NotImplementedError"), <<>>, <<>>)
    ELSE IF self.state = None
    THEN Outcome(self, Plain("render", <<>>, "AttributeError"), <<>>, <<>>)
    ELSE IF self.render_state = None /\ ~lazy
    THEN Outcome(self, Plain("render", <<>>, "BundleError"), <<>>,
                 <<RenderCall("render_image", None)>>)
    ELSE
    LET rs == IF self.render_state = None THEN render_init ELSE self.render_state[1]
        out == render_image(self.state[1], rs)
    IN  Outcome([self EXCEPT !.render_state = Some(out.render_state)],
                Ret("render", <<>>, "", NoValue, 0, FALSE, FALSE, <<>>, out.image),
                <<>>,
                <<RenderCall("render_image", self.render_state)>>)

\* (mutant) a close that discards the environment state with the render state
close_discards_state(self) ==
    IF self.render_state # None
    THEN Outcome([self EXCEPT !.render_state = None, !.state = None],
                 Plain("close", <<>>, ""),
                 <<>>,
                 <<RenderCall("render_close", self.render_state)>>)
    ELSE Outcome([self EXCEPT !.state = None], Plain("close", <<>>, ""), <<>>, <<>>)

\* (mutant) a close that releases the render state and keeps the reference
close_keeps_reference(self) ==
    IF self.render_state # None
    THEN Outcome(self, Plain("close", <<>>, ""), <<>>,
                 <<RenderCall("render_close", self.render_state)>>)
    ELSE Outcome(self, Plain("close", <<>>, ""), <<>>, <<>>)

\* JaxEnv.close()
close(self) ==
    IF self.render_state # None
    THEN Outcome([self EXCEPT !.render_state = None],
                 Plain("close", <<>>, ""),
                 <<>>,
                 <<RenderCall("render_close", self.render_state)>>)
    ELSE Outcome(self, Plain("close", <<>>, ""), <<>>, <<>>)

\* ------------------------------------------------------------ the wrappers
NoWrapper == [kind |-> "none"]

\* np.clip on a batch: an array with one row per sub-environment
np_clip_rows(a, low, high) == [r \in DOMAIN a |-> np_clip(a[r], low[r], high[r])]

\* (mutant) a clip against the lower bound alone
action_low_only(self, a) == [i \in DOMAIN a |-> IF a[i] < self.low[i] THEN self.low[i] ELSE a[i]]

\* _ClipAction.action
action(self, a) == np_clip(a, self.low, self.high)

\* _VectorClipAction.actions
actions(self, a) == np_clip_rows(a, self.low, self.high)

\* ClipAction(env): the wrapper reads the bounds of the action space of env; a
\* vector environment of n sub-environments has the bounds once per row.
ClipAction(low, high, num_envs) ==
    IF num_envs = 0
    THEN [kind |-> "clip", vector |-> FALSE, low |-> low, high |-> high,
          input |-> <<>>, out |-> <<>>]
    ELSE [kind |-> "clip", vector |-> TRUE,
          low |-> [r \in 1..num_envs |-> low], high |-> [r \in 1..num_envs |-> high],
          input |-> <<>>, out |-> <<>>]

\* Arrays are known by their shape here: a sequence of axis lengths.
RECURSIVE Prod(_)
Prod(shape) == IF shape = <<>> THEN 1 ELSE shape[1] * Prod(Tail(shape))

\* spaces.flatten_space of a Box of this shape: the shape of the flattened Box
flatten_space(shape) == <<Prod(shape)>>

\* spaces.flatten(space, x) of a Box: np.asarray(x).flatten(), one axis holding
\* every entry of x
flatten(space, x) == <<Prod(x)>>

\* gymnasium.vector.utils.batch_space of a Box: a new leading axis of length n
batch_space(shape, n) == <<n>> \o shape

\* _FlattenObservation.__init__ over an environment whose observation space is
\* a Box of the given shape
FlattenObservation(shape) ==
    [kind |-> "flatten", vector |-> FALSE, num_envs |-> 0,
     env_observation_space |-> shape,
     observation_space |-> flatten_space(shape),
     input |-> <<>>, out |-> <<>>]

\* _VectorFlattenObservation.__init__ over a vector environment of n
\* sub-environments, each with a Box observation space of the given shape
VectorFlattenObservation(shape, n) ==
    [kind |-> "flatten", vector |-> TRUE, num_envs |-> n,
     env_observation_space |-> batch_space(shape, n),
     observation_space |-> batch_space(flatten_space(shape), n),
     input |-> <<>>, out |-> <<>>]

\* (mutant) an observation handed on as it came
flatten_observation_unchanged(self, o) == o

\* _FlattenObservation.observation and _VectorFlattenObservation.observation
flatten_observation(self, o) == flatten(self.env_observation_space, o)

\* ------------------------------------------------------------ the behaviours
\* Two adapters constructed with the same arguments; each constructor draws a
\* seed of its own.
Construct(seeds) ==
    \E fe \in FuncEnvs, box \in BOOLEAN, mode \in RenderModes :
        LET made == JaxEnv(fe, box, mode, seeds[1])
            twin == JaxEnv(fe, box, mode, seeds[2])
        IN  /\ env = made.env
            /\ ret = made.ret
            /\ calls = <<>>
            /\ passed = <<>>
            /\ currents = {made.env.rng}
            /\ rlog = made.rops
            /\ built = seeds
            /\ env2 = twin.env
            /\ ret2 = twin.ret
            /\ w = NoWrapper

\* One call on the first adapter: the instance, the result and the record of
\* what the bundle was handed all change together.
Call(out, seed) ==
    /\ Len(calls) < MaxCalls
    /\ env' = out.env
    /\ ret' = out.ret
    /\ calls' = Append(calls, out.ret.op)
    /\ passed' = passed \o [i \in DOMAIN out.passed |->
                               [tok |-> out.passed[i], reseeded |-> seed # None]]
    /\ currents' = currents \cup {out.env.rng}
                            \cup (IF seed # None THEN {PRNGKey(seed[1])} ELSE {})
    /\ rlog' = rlog \o out.rops
    /\ built' = built
    /\ w' = w

Apply(out, seed) == Call(out, seed) /\ UNCHANGED <<env2, ret2>>

SeedArgs == {None} \cup {Some(s) : s \in Seeds}

\* ---- one adapter, any sequence of calls
Init == \E seed \in Seeds : Construct(<<seed, seed>>)

Reset == \E seed \in SeedArgs : Apply(reset(env, seed), seed)

Step == \E a \in ActionInputs : Apply(step(env, a), None)

Render == \E lazy \in BOOLEAN : Apply(render(env, lazy), None)

Close == Apply(close(env), None)

Next == Reset \/ Step \/ Render \/ Close

Spec == Init /\ [][Next]_vars

\* ---- two adapters, the same call made on both
InitPair == \E seed \in Seeds, seed2 \in Seeds : Construct(<<seed, seed2>>)

Both(out, out2, seed) ==
    /\ Call(out, seed)
    /\ env2' = out2.env
    /\ ret2' = out2.ret

ResetBoth == \E seed \in SeedArgs : Both(reset(env, seed), reset(env2, seed), seed)

StepBoth == \E a \in ActionInputs : Both(step(env, a), step(env2, a), None)

NextPair == ResetBoth \/ StepBoth

SpecPair == InitPair /\ [][NextPair]_vars

\* ---- two adapters: any calls on the first, then one episode on both
\* The second adapter is fresh until the episode starts.
Fresh == ret2.op = "__init__"

HistoryReset == Fresh /\ Reset

HistoryStep == Fresh /\ Step

HistoryRender == Fresh /\ Render

HistoryClose == Fresh /\ Close

\* reset(seed=s) on both: the episode starts, or starts again
EpisodeReset ==
    \E s \in Seeds : Both(reset(env, Some(s)), reset(env2, Some(s)), Some(s))

EpisodeStep == ~Fresh /\ StepBoth

NextHistory ==
    \/ HistoryReset \/ HistoryStep \/ HistoryRender \/ HistoryClose
    \/ EpisodeReset \/ EpisodeStep

\* The constructors drew different seeds.
InitHistory ==
    \E seed \in Seeds, seed2 \in Seeds : seed # seed2 /\ Construct(<<seed, seed2>>)

SpecHistory == InitHistory /\ [][NextHistory]_vars

\* ---- the wrappers: a wrapper is constructed, then transforms values
\* The wrapped environment plays no part in a transform: it stays as constructed.
InitWrapper(wrapper) ==
    LET made == JaxEnv("array", TRUE, "none", 0)
    IN  /\ env = made.env /\ ret = made.ret /\ calls = <<>> /\ passed = <<>>
        /\ currents = {made.env.rng} /\ rlog = made.rops /\ built = <<0, 0>>
        /\ env2 = made.env /\ ret2 = made.ret
        /\ w = wrapper

Transform(input, out) ==
    /\ w' = [w EXCEPT !.input = input, !.out = out]
    /\ UNCHANGED <<env, ret, calls, passed, currents, rlog, built, env2, ret2>>

ClipVals == (0 - MaxClip)..MaxClip
ClipBounds == (1 - MaxClip)..(MaxClip - 1)
ClipLens == {1, 2}

\* the example of the docstring of _ClipAction
ScenarioLow == <<-1, -1, -1, -1>>
ScenarioHigh == <<1, 1, 1, 1>>
ScenarioAction == <<5, 2, -10, 0>>

InitClip ==
    \/ \E n \in ClipLens, num_envs \in {0, 2} :
          \E low \in [1..n -> ClipBounds], high \in [1..n -> ClipBounds] :
             /\ num_envs > 0 => n = 1
             /\ \A i \in 1..n : low[i] <= high[i]
             /\ InitWrapper(ClipAction(low, high, num_envs))
    \/ InitWrapper(ClipAction(ScenarioLow, ScenarioHigh, 0))

\* env.step(a) through _ClipAction: the action handed on is action(a)
ClipOne ==
    /\ w.kind = "clip" /\ ~w.vector
    /\ \E a \in [DOMAIN w.low -> ClipVals] \cup {ScenarioAction} :
          /\ DOMAIN a = DOMAIN w.low
          /\ Transform(a, action(w, a))

\* env.step(a) through _VectorClipAction: the actions handed on are actions(a)
ClipBatch ==
    /\ w.kind = "clip" /\ w.vector
    /\ \E a \in [DOMAIN w.low -> [DOMAIN w.low[1] -> ClipVals]] :
          Transform(a, actions(w, a))

NextClip == ClipOne \/ ClipBatch

SpecClip == InitClip /\ [][NextClip]_vars

Shapes == UNION {[1..r -> 1..MaxDim] : r \in 1..MaxRank}

\* the example of the docstring of _FlattenObservation
ScenarioShape == <<96, 96, 3>>

InitFlatten ==
    \/ \E shape \in Shapes :
          \/ InitWrapper(FlattenObservation(shape))
          \/ \E n \in 1..MaxEnvs : InitWrapper(VectorFlattenObservation(shape, n))
    \/ InitWrapper(FlattenObservation(ScenarioShape))

\* An observation of the wrapped environment, which conforms to its
\* observation space, goes through _FlattenObservation.observation.
FlattenOne ==
    /\ w.kind = "flatten" /\ ~w.vector
    /\ Transform(w.env_observation_space, flatten_observation(w, w.env_observation_space))

\* The same through _VectorFlattenObservation.observation.
FlattenBatch ==
    /\ w.kind = "flatten" /\ w.vector
    /\ Transform(w.env_observation_space, flatten_observation(w, w.env_observation_space))

NextFlatten == FlattenOne \/ FlattenBatch

SpecFlatten == InitFlatten /\ [][NextFlatten]_vars

\* ---- a Box adapter behind ClipAction, and its twin used directly
InitWrapped ==
    \E fe \in FuncEnvs, mode \in RenderModes, seed \in Seeds, seed2 \in Seeds :
        LET made == JaxEnv(fe, TRUE, mode, seed)
            twin == JaxEnv(fe, TRUE, mode, seed2)
        IN  /\ env = made.env /\ ret = made.ret /\ calls = <<>> /\ passed = <<>>
            /\ currents = {made.env.rng} /\ rlog = made.rops /\ built = <<seed, seed2>>
            /\ env2 = twin.env /\ ret2 = twin.ret
            /\ w = ClipAction(<<BoxLow>>, <<BoxHigh>>, 0)

\* ActionWrapper.step(a) is env.step(self.action(a)); the twin gets a itself
WrappedStep ==
    \E a \in ActionInputs : Both(step(env, action(w, <<a>>)[1]), step(env2, a), None)

\* the wrapper hands reset on as it is
WrappedReset == w.kind = "clip" /\ ResetBoth

NextWrapped == WrappedReset \/ WrappedStep

SpecWrapped == InitWrapped /\ [][NextWrapped]_vars

\* ---- the conversion: a nested value is built, then converted
\* What a bundle can hand back at one position: a jax array, or a value of a
\* type the conversion does not know (a Python number, a numpy array).
Leaves == {Jnp(0), Jnp(1), Other(0), Np(0)}
Containers == {"tuple", "list", "dict"}
KeyNames == <<"a", "b", "c", "d", "e", "f", "g", "h">>

Container(kind, elems) ==
    [kind |-> kind, val |-> 0, elems |-> elems,
     keys |-> IF kind = "dict" THEN SubSeq(KeyNames, 1, Len(elems)) ELSE <<>>]

\* the number of arrays, containers and other values in a value
RECURSIVE Nodes(_)
RECURSIVE NodesFrom(_, _)
Nodes(v) == 1 + NodesFrom(v.elems, 1)
NodesFrom(elems, i) ==
    IF i > Len(elems) THEN 0 ELSE Nodes(elems[i]) + NodesFrom(elems, i + 1)

InitConvert ==
    \E v \in Leaves \cup {Container(k, <<>>) : k \in Containers} :
        InitWrapper([kind |-> "convert", input |-> v, out |-> None])

Rebuild(v) ==
    /\ w.kind = "convert" /\ w.out = None
    /\ Nodes(w.input) < MaxNodes
    /\ w' = [w EXCEPT !.input = v]
    /\ UNCHANGED <<env, ret, calls, passed, currents, rlog, built, env2, ret2>>

\* the value goes into a new container
GrowWrap == \E k \in Containers : Rebuild(Container(k, <<w.input>>))

\* the container gets one more element
GrowAppend ==
    /\ w.input.kind \in Containers
    /\ \E leaf \in Leaves : Rebuild(Container(w.input.kind, Append(w.input.elems, leaf)))

\* _convert_jax_to_numpy(value)
Convert ==
    /\ w.kind = "convert" /\ w.out = None
    /\ w' = [w EXCEPT !.out = Some(convert_jax_to_numpy(w.input))]
    /\ UNCHANGED <<env, ret, calls, passed, currents, rlog, built, env2, ret2>>

NextConvert == GrowWrap \/ GrowAppend \/ Convert

SpecConvert == InitConvert /\ [][NextConvert]_vars

\* ================================================================ the claims
Last(s) == s[Len(s)]

\* C1 (as claimed): a call that raises the invalid-action, the unsupported-
\* conversion or the unsupported-render-mode error leaves the stored state and
\* the random stream as they were before the call.
C1_ErrorLeavesStateUntouched ==
    [][ret'.err \in {"AssertionError", "TypeError", "NotImplementedError"}
         => (env'.state = env.state /\ env'.rng = env.rng)]_vars

\* C2: a successful step returns the observation of the state stored before
\* the call, the reward of (state, action, next state), the termination of the
\* next state and the step info of the three, and stores the next state; so the
\* step that directly follows a reset returns the observation reset returned.
C2_StepContract ==
    /\ [][(ret'.op = "step" /\ ret'.err = "") =>
            LET s == env.state[1]
                a == IF env.is_box THEN clip1(ret'.arg[1], BoxLow, BoxHigh) ELSE ret'.arg[1]
                s2 == transition(s, a, Append(env.rng, 0))
            IN  /\ ret'.obs = convert_jax_to_numpy(observation(env.func_env, s)).value
                /\ ret'.reward = reward(s, a, s2)
                /\ ret'.terminated = terminal(s2)
                /\ ret'.info = step_info(s, a, s2)
                /\ env'.state = Some(s2)]_vars
    /\ [][(ret.op = "reset" /\ ret.err = "" /\ ret'.op = "step" /\ ret'.err = "")
            => ret'.obs = ret.obs]_vars

\* C2's case: a second successful step in a row, which moved the state.
C2_Witness ==
    /\ Len(calls) >= 3
    /\ calls[Len(calls) - 1] = "step"
    /\ ret.op = "step" /\ ret.err = ""
    /\ ret.info[1] # ret.info[3]

\* C3 (as claimed): no key handed to initial / transition is handed again, and
\* none equals a key that was or is the current key.
C3_NoTokenReuse ==
    /\ \A i, j \in DOMAIN passed : i < j => passed[i].tok # passed[j].tok
    /\ \A i \in DOMAIN passed : passed[i].tok \notin currents

\* C3 (amended): every reset and step that reaches the bundle hands it the first
\* half of the split of the current key and keeps the second half; a handed key
\* never equals a current key; and a key is handed twice only with a seeded reset
\* in between (at the second hand-over or before it).
C3_NoReuseWithoutReseed ==
    /\ [][Len(passed') > Len(passed) =>
            LET from == IF Last(passed').reseeded THEN PRNGKey(ret'.arg[1]) ELSE env.rng
            IN  /\ Last(passed').tok = split(from)[1]
                /\ env'.rng = split(from)[2]]_vars
    /\ [](\A i \in DOMAIN passed : passed[i].tok \notin currents)
    /\ [](\A i, j \in DOMAIN passed :
            (i < j /\ passed[i].tok = passed[j].tok)
               => \E k \in (i + 1)..j : passed[k].reseeded)

\* C3's case: three keys handed over with no seeded reset among them.
C3_Witness ==
    /\ Len(passed) >= 3
    /\ \A i \in DOMAIN passed : ~passed[i].reseeded

\* C4 (as claimed): render_init is not called before the first render call, and
\* no render call hands the bundle an absent render state.
C4_LazyAcquire ==
    /\ \A i \in DOMAIN rlog : rlog[i].fn = "render_init" =>
          \E j \in 1..(i - 1) : rlog[j].fn = "render_image"
    /\ \A i \in DOMAIN rlog : rlog[i].fn = "render_image" => rlog[i].rs # None

\* C4 (amended): in rgb_array mode render_init is called once, by the
\* constructor, before any render call; every render call hands the bundle the
\* render state stored at that moment and stores the one returned; render_close
\* is called only by close, on the stored render state, which is then cleared,
\* so that a render call after close hands the bundle an absent render state.
C4_EagerAcquire ==
    /\ [](/\ \A i \in DOMAIN rlog : rlog[i].fn = "render_init" <=>
                   (i = 1 /\ env.render_mode = "rgb_array")
          /\ env.render_mode = "rgb_array" => Len(rlog) >= 1)
    /\ [][/\ Len(rlog') <= Len(rlog) + 1
          /\ Len(rlog') > Len(rlog) =>
               /\ Last(rlog').rs = env.render_state
               /\ Last(rlog').fn = "render_image" <=> ret'.op = "render"
               /\ Last(rlog').fn = "render_close" <=> ret'.op = "close"
          /\ (ret'.op = "render" /\ ret'.err = "") =>
               /\ Len(rlog') > Len(rlog)
               /\ env'.render_state # None
               /\ env.render_state # None =>
                     env'.render_state =
                        Some(render_image(env.state[1], env.render_state[1]).render_state)
          /\ ret'.op = "close" =>
               /\ env'.render_state = None
               /\ Len(rlog') > Len(rlog) <=> env.render_state # None
          /\ ret'.op \in {"reset", "step"} => env'.render_state = env.render_state]_vars

\* C4's case: a render state was threaded through two render calls and then
\* released by close.
C4_Witness ==
    /\ Len(rlog) >= 4
    /\ rlog[2].fn = "render_image" /\ rlog[3].fn = "render_image"
    /\ rlog[4] = RenderCall("render_close", Some(render_init + 2))
    /\ env.render_state = None

\* C5: close does not raise, and a close that directly follows a close calls
\* no render operation and leaves the adapter as the first close left it; in
\* every reachable state two closes leave what one close leaves.
C5_CloseIdempotent ==
    /\ [](LET once == close(env)
              twice == close(once.env)
          IN  /\ once.ret.err = "" /\ twice.ret.err = ""
              /\ twice.rops = <<>>
              /\ twice.env = once.env)
    /\ [][ret'.op = "close" => ret'.err = ""]_vars
    /\ [][(ret.op = "close" /\ ret'.op = "close") => (rlog' = rlog /\ env' = env)]_vars

\* C5's case: two closes in a row, the first of which released a render state.
C5_Witness ==
    /\ Len(calls) >= 2
    /\ calls[Len(calls)] = "close" /\ calls[Len(calls) - 1] = "close"
    /\ Len(rlog) >= 2 /\ Last(rlog).fn = "render_close"

\* C7: every step that returns, returns truncated = FALSE.
C7_NeverTruncated ==
    (ret.op = "step" /\ ret.err = "") => ret.truncated = FALSE

\* C7's case: a step from a terminal state that returned terminated = TRUE.
C7_Witness ==
    /\ ret.op = "step" /\ ret.err = ""
    /\ ret.terminated /\ terminal(ret.info[1])

\* C8: with a non-Box action space, step with an action outside the space
\* raises the invalid-action error, hands no key to the bundle and leaves the
\* whole adapter, the current key included, as it was.
C8_InvalidActionFirst ==
    [][(ret'.op = "step" /\ ~env.is_box /\ ~contains(ret'.arg[1])) =>
          /\ ret'.err = "AssertionError"
          /\ env' = env
          /\ passed' = passed
          /\ currents' = currents]_vars

\* C8's case: an invalid action refused between a reset and now.
C8_Witness ==
    /\ ret.op = "step" /\ ret.err = "AssertionError"
    /\ env.state # None
    /\ ~contains(ret.arg[1])

\* C6: two adapters constructed with the same arguments, whatever seeds their
\* constructors drew, return the same observation and info (or raise the same
\* error) when both are reset with the same seed.
C6_SeededResetDeterministic ==
    (ret.op = "reset" /\ ret2.op = "reset" /\ ret.arg # None /\ ret.arg = ret2.arg)
        => (ret.obs = ret2.obs /\ ret.info = ret2.info /\ ret.err = ret2.err)

\* C6's case: the constructors drew different seeds and the first call on both
\* adapters was a reset with a seed, which returned an observation.
C6_Witness ==
    /\ built[1] # built[2]
    /\ calls = <<"reset">>
    /\ ret.arg # None /\ ret2.arg = ret.arg
    /\ ret.err = "" /\ ret.obs.kind # "none"

\* C9 (as claimed): what the batched flatten wrapper returns has the shape of
\* the observation space it declares, (n, k).
C9_BatchAxisPreserved ==
    (w.kind = "flatten" /\ w.vector /\ w.out # <<>>) => w.out = w.observation_space

\* C10: every component of a clipped action lies within its bounds; it is the
\* given component when that lies within them, the lower bound when it lies
\* below and the upper bound when it lies above; the docstring's example comes
\* out as [1, 1, -1, 0]; and clipping the result again changes nothing.
C10_ClipWithinBounds ==
    (w.kind = "clip" /\ w.out # <<>>) =>
        LET Within(x, lo, hi, y) ==
                /\ lo <= y /\ y <= hi
                /\ (lo <= x /\ x <= hi) => y = x
                /\ x < lo => y = lo
                /\ x > hi => y = hi
        IN  IF w.vector
            THEN /\ DOMAIN w.out = DOMAIN w.input
                 /\ \A r \in DOMAIN w.out :
                       /\ DOMAIN w.out[r] = DOMAIN w.input[r]
                       /\ \A i \in DOMAIN w.out[r] :
                             Within(w.input[r][i], w.low[r][i], w.high[r][i], w.out[r][i])
                 /\ actions(w, w.out) = w.out
            ELSE /\ DOMAIN w.out = DOMAIN w.input
                 /\ \A i \in DOMAIN w.out : Within(w.input[i], w.low[i], w.high[i], w.out[i])
                 /\ (w.low = ScenarioLow /\ w.high = ScenarioHigh /\ w.input = ScenarioAction)
                       => w.out = <<1, 1, -1, 0>>
                 /\ action(w, w.out) = w.out

\* C10's case: an action with one component above its upper bound and one
\* below its lower bound went through the wrapper.
C10_Witness ==
    /\ w.kind = "clip" /\ ~w.vector /\ w.out # <<>>
    /\ \E i, j \in DOMAIN w.input : w.input[i] > w.high[i] /\ w.input[j] < w.low[j]

\* C11: whenever the render mode is not rgb_array, before any reset, after a
\* reset and after close alike, render raises NotImplementedError, calls no
\* render operation of the bundle, hands it no key and leaves the adapter, its
\* state, random stream and render state included, as it was.
C11_RenderUnsupportedMode ==
    [][(ret'.op = "render" /\ env.render_mode # "rgb_array") =>
          /\ ret'.err = "NotImplementedError"
          /\ env' = env
          /\ rlog' = rlog
          /\ passed' = passed]_vars

\* C11's case: render refused after a reset and a close; and render refused
\* on an adapter that was never reset.
C11_Witness ==
    /\ ret.op = "render" /\ ret.err = "NotImplementedError"
    /\ \E i, j \in DOMAIN calls : i < j /\ calls[i] = "reset" /\ calls[j] = "close"
    /\ env.state # None

C11_WitnessBeforeReset ==
    /\ ret.op = "render" /\ ret.err = "NotImplementedError"
    /\ env.state = None

\* C12: reset(seed=s) hands initial the first half of the split of PRNGKey(s),
\* whatever the current key was, and keeps the second half; reset() hands it
\* the first half of the split of the current key and keeps the second half,
\* so that two resets without a seed in a row hand over different keys.
C12_ResetStream ==
    /\ [][ret'.op = "reset" =>
            LET from == IF ret'.arg # None THEN <<ret'.arg[1]>> ELSE env.rng
            IN  /\ Len(passed') = Len(passed) + 1
                /\ Last(passed').tok = Append(from, 0)
                /\ env'.rng = Append(from, 1)]_vars
    /\ [][(ret.op = "reset" /\ ret'.op = "reset" /\ ret'.arg = None)
            => Last(passed').tok # Last(passed).tok]_vars

\* C12's case: two resets without a seed in a row, after a reset with a seed.
C12_Witness ==
    /\ Len(calls) >= 3 /\ Len(passed) >= 3
    /\ calls[Len(calls)] = "reset" /\ calls[Len(calls) - 1] = "reset"
    /\ ~passed[Len(passed)].reseeded /\ ~passed[Len(passed) - 1].reseeded
    /\ passed[Len(passed) - 2].reseeded

WasCalled(op) == \E i \in DOMAIN calls : calls[i] = op

\* The calls made since the last reset (all of them when there was none).
SinceReset ==
    LET resets == {i \in DOMAIN calls : calls[i] = "reset"}
        from == IF resets = {} THEN 0 ELSE CHOOSE i \in resets : \A j \in resets : j <= i
    IN  {calls[i] : i \in (from + 1)..Len(calls)}

\* C13 (as claimed): the state and the render state are defined only between
\* a reset and the close that follows it: neither is defined before the first
\* reset, and neither is defined once close has been called and no reset has
\* followed.
C13_DefinedOnlyBetweenResetAndClose ==
    /\ ~WasCalled("reset") => (env.state = None /\ env.render_state = None)
    /\ "close" \in SinceReset => (env.state = None /\ env.render_state = None)

\* C13 (amended): the state is undefined until the first reset and defined
\* ever after; close leaves it as it is, so that a step after close runs on
\* the state the last reset or step stored and does not fail for want of one.
\* The render state is defined from construction in rgb_array mode and never
\* in another mode; close clears it, and only a later render defines it again.
C13_StateFromFirstReset ==
    /\ [](env.state # None <=> WasCalled("reset"))
    /\ [](env.render_mode # "rgb_array" => env.render_state = None)
    /\ []((calls = <<>> /\ env.render_mode = "rgb_array") => env.render_state # None)
    /\ [][ret'.op = "close" => (env'.state = env.state /\ env'.render_state = None)]_vars
    /\ [][(env.render_state = None /\ env'.render_state # None) => ret'.op = "render"]_vars
    /\ [][(ret'.op = "step" /\ env.state # None) => ret'.err # "AttributeError"]_vars

\* C13's case: a step taken after close returned, on the state of the episode
\* that close had ended.
C13_Witness ==
    /\ Len(calls) >= 3
    /\ calls[Len(calls) - 1] = "close" /\ calls[Len(calls)] = "step"
    /\ ret.err = ""
    /\ env.render_mode = "rgb_array" /\ env.render_state = None

\* Every position of the value holds a jax array, a tuple, a list or a dict.
RECURSIVE Recognised(_)
Recognised(v) ==
    \/ v.kind = "jnp"
    \/ /\ v.kind \in Containers
       /\ \A i \in DOMAIN v.elems : Recognised(v.elems[i])

\* out is v with every jax array replaced by the numpy array of its entries:
\* the same containers, lengths, order and keys.
RECURSIVE Converted(_, _)
Converted(v, out) ==
    IF v.kind = "jnp" THEN out = Np(v.val)
    ELSE /\ out.kind = v.kind
         /\ out.keys = v.keys
         /\ Len(out.elems) = Len(v.elems)
         /\ \A i \in DOMAIN v.elems : Converted(v.elems[i], out.elems[i])

\* C14: the conversion of a value made of jax arrays, tuples, lists and dicts
\* returns the same structure with every array converted; a value that holds
\* anything else at any depth makes the conversion raise and return nothing.
C14_StructurePreserved ==
    (w.kind = "convert" /\ w.out # None) =>
        IF Recognised(w.input)
        THEN ~w.out[1].raised /\ Converted(w.input, w.out[1].value)
        ELSE w.out[1].raised /\ w.out[1].value.kind \in {"other", "np"}

\* C14's case: a dict inside a container converted with its key and its two
\* arrays; and a value of another type two containers deep refused.
C14_Witness ==
    /\ w.kind = "convert" /\ w.out # None
    /\ ~w.out[1].raised
    /\ w.input.kind \in Containers /\ Len(w.input.elems) >= 2
    /\ w.input.elems[1].kind = "dict" /\ Len(w.input.elems[1].elems) >= 2

C14_WitnessRefused ==
    /\ w.kind = "convert" /\ w.out # None
    /\ w.out[1].raised
    /\ w.input.kind \in Containers /\ w.input.elems # <<>>
    /\ w.input.elems[1].kind \in Containers /\ w.input.elems[1].elems # <<>>
    /\ w.input.elems[1].elems[1].kind = "other"
    /\ Len(w.input.elems) >= 2

\* C15: what the single-instance flatten wrapper returns for an observation of
\* the wrapped space has one axis, whose length is the size of the observation
\* space the wrapper declares, the product of the axes of the wrapped space;
\* an observation of shape (96, 96, 3) comes out with shape (27648,).
C15_FlattenedLength ==
    (w.kind = "flatten" /\ ~w.vector /\ w.out # <<>>) =>
        /\ Len(w.out) = 1
        /\ Len(w.observation_space) = 1
        /\ w.out[1] = w.observation_space[1]
        /\ w.out[1] = Prod(w.input)
        /\ w.input = ScenarioShape => w.out = <<27648>>

\* C15's case: the observation of the docstring went through the wrapper.
C15_Witness ==
    /\ w.kind = "flatten" /\ ~w.vector
    /\ w.input = ScenarioShape /\ w.out # <<>>

\* C16: with a Box action space step never raises the invalid-action error,
\* whatever the action, and the action handed to transition, reward and
\* step_info is the given one clamped into [low, high]: the next state, the
\* reward and the info are those of the clamped action.
C16_BoxActionClamped ==
    [][(ret'.op = "step" /\ env.is_box) =>
          /\ ret'.err # "AssertionError"
          /\ (env.state # None /\ ret'.err \in {"", "TypeError"}) =>
                LET a == ret'.arg[1]
                    clamped == IF a < BoxLow THEN BoxLow ELSE IF a > BoxHigh THEN BoxHigh ELSE a
                    s == env.state[1]
                    s2 == transition(s, clamped, Append(env.rng, 0))
                IN  /\ BoxLow <= clamped /\ clamped <= BoxHigh
                    /\ env'.state = Some(s2)
                    /\ ret'.err = "" => /\ ret'.reward = reward(s, clamped, s2)
                                        /\ ret'.info = step_info(s, clamped, s2)]_vars

\* C16's case: steps with an action above the upper bound and with an action
\* below the lower bound returned.
C16_Witness ==
    /\ env.is_box
    /\ ret.op = "step" /\ ret.err = ""
    /\ ret.arg[1] > BoxHigh /\ ret.info[2] = BoxHigh

C16_WitnessBelow ==
    /\ env.is_box
    /\ ret.op = "step" /\ ret.err = ""
    /\ ret.arg[1] < BoxLow /\ ret.info[2] = BoxLow

\* C17: from a reset with a seed on, an adapter that went through any calls
\* before it and an adapter fresh from its constructor return the same to the
\* same calls, and hold the same state and the same current key.
C17_HistoryIndependent ==
    ~Fresh => (ret = ret2 /\ env.state = env2.state /\ env.rng = env2.rng)

\* C17's case: after a render, a close and calls that failed on the first
\* adapter, a seeded reset and a step returned the same on both; and the same
\* after an episode of a reset and a step.
C17_Witness ==
    /\ ~Fresh /\ Len(calls) >= 4
    /\ calls[1] = "reset" /\ calls[2] = "step"
    /\ calls[Len(calls) - 1] = "reset" /\ calls[Len(calls)] = "step"
    /\ ret2.op = "step" /\ ret2.err = ""
    /\ built[1] # built[2]

C17_WitnessRendered ==
    /\ ~Fresh /\ Len(calls) >= 4
    /\ calls[1] = "reset" /\ calls[2] = "render" /\ calls[3] = "close"
    /\ ret2.op = "reset" /\ ret2.err = ""
    /\ env.render_state # env2.render_state

\* C18: render and close, whether they return or raise, leave the state and
\* the current key as they were and hand no key to the bundle, so that every
\* reset and step made after them returns what it would have returned without
\* them; reset and step leave the render state as it was and call no render
\* operation of the bundle.
C18_FrameConditions ==
    /\ [][ret'.op \in {"render", "close"} =>
            /\ env'.state = env.state
            /\ env'.rng = env.rng
            /\ passed' = passed
            /\ \A seed \in SeedArgs : reset(env', seed).ret = reset(env, seed).ret
            /\ \A a \in ActionInputs : step(env', a).ret = step(env, a).ret]_vars
    /\ [][ret'.op \in {"reset", "step"} =>
            /\ env'.render_state = env.render_state
            /\ rlog' = rlog]_vars

\* C18's case: a render that returned an image and changed the render state
\* in the middle of an episode, followed by a step that returned.
C18_Witness ==
    /\ Len(calls) >= 3
    /\ calls[Len(calls) - 2] = "reset"
    /\ calls[Len(calls) - 1] = "render"
    /\ calls[Len(calls)] = "step"
    /\ ret.err = ""
    /\ env.render_state = Some(render_init + 1)

\* Both adapters have been reset with the same seed.
Seeded == \E i \in DOMAIN passed : passed[i].reseeded

\* C19: once both have been reset with the same seed, a Box adapter behind the
\* clip wrapper and its twin used directly, given the same actions, hand the
\* same action to the bundle, hold the same state and the same current key
\* after every step, and return the same.
C19_ClipWrapperTransparent ==
    Seeded =>
        /\ env.state = env2.state
        /\ env.rng = env2.rng
        /\ [ret EXCEPT !.arg = <<>>] = [ret2 EXCEPT !.arg = <<>>]
        /\ (ret.op = "step" /\ ret.err = "") => ret.info[2] = ret2.info[2]

\* C19's case: an action above the upper bound, clipped by the wrapper for one
\* adapter and given as it is to the other, and both steps returned.
C19_Witness ==
    /\ Seeded
    /\ ret.op = "step" /\ ret.err = "" /\ ret2.err = ""
    /\ ret2.arg[1] > BoxHigh /\ ret.arg[1] = BoxHigh
    /\ built[1] # built[2]

====
